---- MODULE Spec2Model ----
(***************************************************************************)
(* Watchlist synchronisation of cinesense-pro (src/src/hooks/              *)
(* useWatchlistSync.ts): one hook instance owning the in-memory watchlist, *)
(* the localStorage slot 'movie-watchlist', the Firestore documents        *)
(* users/<uid>, the loadAndMerge runs in flight and the fire-and-forget    *)
(* setDoc calls in flight; and of its recommendation engine                *)
(* (src/src/lib/recommendation.ts): getRecommendations and                 *)
(* getSimilarMovies as pure functions of the catalog and their arguments.  *)
(*                                                                         *)
(* A WatchlistItem is modelled by its id and its addedAt; the other        *)
(* TMDBMovie fields are carried along unchanged by every operation.        *)
(* JSON.stringify / JSON.parse of an array of such items returns the same  *)
(* array, so the local store holds the list itself.                        *)
(***************************************************************************)
EXTENDS Integers, Sequences, FiniteSets, TLC

\* ---------------------------------------------------------------- bounds
MaxId == 2
MaxEvents == 4
MaxStamp == 2
MaxFairEvents == 3
MaxHistEvents == 3

Ids == 1..MaxId
Uids == {"alice", "bob"}
NoUser == "null"
\* identities whose document users/<uid> does not exist yet; the others have a
\* document without a watchlist field
NewUids == {"alice"}

Item(i, t) == [id |-> i, addedAt |-> t]

VARIABLES
  user,        \* the hook's argument: NoUser or a uid
  watchlist,   \* useState<WatchlistItem[]>: the in-memory list
  syncing,     \* useState(false)
  phase,       \* "unmounted", "mounted", or "crashed": the initializer threw
  localStore,  \* localStorage['movie-watchlist'] as line 52 reads it: the list
               \* stored, the empty list when nothing is stored
  storeKind,   \* what the slot holds: "absent", "corrupt" (not JSON), "json"
  remote,      \* Firestore: uid -> document users/<uid>
  syncs,       \* loadAndMerge runs: sequence of records, one per run started
  pushes,      \* setDoc calls of add/remove/clear not yet settled
  now,         \* Date.now()
  events,      \* number of identity changes, hook calls and clock ticks so far
  last,        \* history: the step taken last
  mLocal, mCloud,   \* merge harness: the two arguments of mergeWatchlists
  mOut, mPrev,      \* merge harness: the last result and the one before it
  mPc,              \* merge harness: "idle" (harness off), "in", "merged", "again", "self"
  rIn,              \* recommendation engine: the catalog, the filters, the current
                    \* year and the movie passed to getSimilarMovies
  rOut,             \* recommendation engine: the list returned
  rPc,              \* recommendation engine: "idle", "in", "recs", "similar"
  hist,             \* history of the pushes and of the in-memory list, kept in
                    \* the behaviours that start with hist.track
  card              \* a second instance of the hook on the same page (the one a
                    \* MovieCard creates): its phase and its in-memory list

sysVars == <<phase, user, watchlist, syncing, localStore, storeKind, remote, syncs, pushes,
            now, events, last, hist, card>>
mergeVars == <<mLocal, mCloud, mOut, mPrev, mPc>>
recVars == <<rIn, rOut, rPc>>
vars == <<phase, user, watchlist, syncing, localStore, storeKind, remote, syncs, pushes,
         now, events, last, mLocal, mCloud, mOut, mPrev, mPc, rIn, rOut, rPc, hist,
         card>>

\* ------------------------------------------------------------- sequences
RECURSIVE SeqIds(_)
SeqIds(s) == IF s = <<>> THEN {} ELSE {Head(s).id} \cup SeqIds(Tail(s))

Range(s) == {s[k] : k \in 1..Len(s)}

\* prev.some(item => item.id === movieId)
Some(list, movieId) == \E k \in 1..Len(list) : list[k].id = movieId

\* faulty variant of FilterOut: the entries kept come out in reverse order
RECURSIVE FilterOutReversed(_, _)
FilterOutReversed(list, movieId) ==
  IF list = <<>> THEN <<>>
  ELSE IF Head(list).id = movieId THEN FilterOutReversed(Tail(list), movieId)
       ELSE FilterOutReversed(Tail(list), movieId) \o <<Head(list)>>

\* prev.filter(item => item.id !== movieId)
RECURSIVE FilterOut(_, _)
FilterOut(list, movieId) ==
  IF list = <<>> THEN <<>>
  ELSE IF Head(list).id = movieId THEN FilterOut(Tail(list), movieId)
       ELSE <<Head(list)>> \o FilterOut(Tail(list), movieId)

NoDup(list) == \A a, b \in 1..Len(list) : list[a].id = list[b].id => a = b

\* ------------------------------------------------------- mergeWatchlists
\* Map.prototype.set on an insertion-ordered map held as a sequence of values:
\* an existing key keeps its position and takes the new value.
MapSet(m, item) ==
  IF Some(m, item.id)
  THEN [k \in 1..Len(m) |-> IF m[k].id = item.id THEN item ELSE m[k]]
  ELSE Append(m, item)

\* local.forEach(item => merged.set(item.id, item))
RECURSIVE SetAll(_, _)
SetAll(m, list) ==
  IF list = <<>> THEN m ELSE SetAll(MapSet(m, Head(list)), Tail(list))

\* faulty variant of SetAbsent: the has() test left out, cloud entries overwrite
SetAbsentOverwrites(m, list) == SetAll(m, list)

\* cloud.forEach(item => { if (!merged.has(item.id)) merged.set(item.id, item) })
RECURSIVE SetAbsent(_, _)
SetAbsent(m, list) ==
  IF list = <<>> THEN m
  ELSE SetAbsent(IF Some(m, Head(list).id) THEN m ELSE MapSet(m, Head(list)),
                 Tail(list))

\* faulty variant of InsertDesc: an entry goes before the entries that compare
\* equal to it, so a sort reverses them
RECURSIVE InsertDescUnstable(_, _)
InsertDescUnstable(sorted, x) ==
  IF sorted = <<>> THEN <<x>>
  ELSE IF Head(sorted).addedAt > x.addedAt
       THEN <<Head(sorted)>> \o InsertDescUnstable(Tail(sorted), x)
       ELSE <<x>> \o sorted

\* One insertion of a stable sort with comparator (a, b) => b.addedAt - a.addedAt:
\* x goes after every element that does not compare greater than it.
RECURSIVE InsertDesc(_, _)
InsertDesc(sorted, x) ==
  IF sorted = <<>> THEN <<x>>
  ELSE IF Head(sorted).addedAt >= x.addedAt
       THEN <<Head(sorted)>> \o InsertDesc(Tail(sorted), x)
       ELSE <<x>> \o sorted

\* Array.prototype.sort((a, b) => b.addedAt - a.addedAt), stable (ES2019)
RECURSIVE SortDescFrom(_, _)
SortDescFrom(sorted, rest) ==
  IF rest = <<>> THEN sorted
  ELSE SortDescFrom(InsertDesc(sorted, Head(rest)), Tail(rest))

SortDesc(list) == SortDescFrom(<<>>, list)

\* faulty variant of mergeWatchlists: the two lists concatenated, no map
mergeNoDedupe(local, cloud) == SortDesc(local \o cloud)

\* faulty variant of mergeWatchlists: an id the local list lacks stays out
mergeLocalWins(local, cloud) == SortDesc(SetAll(<<>>, local))

mergeWatchlists(local, cloud) == SortDesc(SetAbsent(SetAll(<<>>, local), cloud))

\* ------------------------------------------------------------- documents
\* A Firestore document users/<uid>: absent, present without a watchlist field,
\* or present with one.
NoDoc == [exists |-> FALSE, hasList |-> FALSE, watchlist |-> <<>>]
BareDoc == [exists |-> TRUE, hasList |-> FALSE, watchlist |-> <<>>]

\* setDoc(docRef, { watchlist: list }, { merge: true })
setDoc(d, list) == [exists |-> TRUE, hasList |-> TRUE, watchlist |-> list]

\* faulty variant of cloudWatchlist: the fetched list is dropped
cloudIgnored(d) == <<>>

\* docSnap.exists() ? (docSnap.data().watchlist || []) : []
cloudWatchlist(d) == IF d.exists /\ d.hasList THEN d.watchlist ELSE <<>>

\* ------------------------------------------------------ loadAndMerge runs
\* pc: "fetch" (getDoc issued), "fetched" (the server has read the document,
\* the await has not resumed), "write" (merged installed, setDoc issued),
\* "done".  snap is the document getDoc resolves with, merged the list of line
\* 59.  local0 and touched are history kept while the run awaits its setDoc:
\* the local store as line 52 read it, and whether the list has changed since
\* merged was installed (local0 and snap are dropped once it has).
Run(u, pc, snap, merged, local0, touched) ==
  [uid |-> u, pc |-> pc, snap |-> snap, merged |-> merged,
   local0 |-> local0, touched |-> touched]

NoRun == Run(NoUser, "done", NoDoc, <<>>, <<>>, FALSE)

InFlight(r) == r.pc \in {"fetch", "fetched", "write"}

Touch(ss) ==
  [k \in 1..Len(ss) |->
     IF ss[k].pc = "write"
     THEN Run(ss[k].uid, "write", NoDoc, ss[k].merged, <<>>, TRUE)
     ELSE ss[k]]

TouchIf(changed, ss) == IF changed THEN Touch(ss) ELSE ss

Step(op, r) ==
  [op |-> op, uid |-> r.uid, clean |-> ~r.touched, id |-> 0, ret |-> "none", did |-> "none"]

\* history of a call of the hook's API: the operation and the movie id passed
Call(op, movieId) ==
  [op |-> op, uid |-> NoUser, clean |-> TRUE, id |-> movieId, ret |-> "none", did |-> "none"]

\* what a call did to the entry of movieId, from the list before and after it
Change(before, after, movieId) ==
  IF ~Some(before, movieId) /\ Some(after, movieId) THEN "added"
  ELSE IF Some(before, movieId) /\ ~Some(after, movieId) THEN "removed"
  ELSE "none"

\* history of a handler that calls toggleWatchlist: what its last call
\* returned (true: "added", false: "removed") and what that call did
Toggled(op, movieId, ret, did) ==
  [op |-> op, uid |-> NoUser, clean |-> TRUE, id |-> movieId, ret |-> ret, did |-> did]

\* History: seen, the lists that have been the in-memory watchlist; issued,
\* the number of fire-and-forget setDoc calls made so far; inOrder, whether
\* every one that has settled so far resolved, and before every one made
\* earlier for the same document that was still in flight; quiet, whether
\* the in-memory list and the local store are as the call that made the last
\* one left them.
NoHist == [track |-> FALSE, seen |-> {}, issued |-> 0, inOrder |-> TRUE, quiet |-> FALSE]

\* the number of the k-th setDoc call of a handler (0 when no history is kept)
PushNo(k) == IF hist.track THEN hist.issued + k ELSE 0

\* a fire-and-forget setDoc of add / remove / clear; n is history
Push(u, list, n) == [uid |-> u, list |-> list, n |-> n]

\* if (user) { setDoc(doc(db, 'users', user.uid), { watchlist: newList }, ...) }
pushIfUser(list) ==
  IF user # NoUser THEN pushes \cup {Push(user, list, PushNo(1))} ELSE pushes

\* the history after a step
Observe ==
  hist' =
    IF ~hist.track THEN hist
    ELSE [track |-> TRUE,
          seen |-> hist.seen \cup {watchlist'},
          issued |-> hist.issued + Cardinality(pushes' \ pushes),
          inOrder |->
            /\ hist.inOrder
            /\ \A p \in pushes \ pushes' :
                 /\ last'.op = "pushOk"
                 /\ \A q \in pushes' : q.uid = p.uid => q.n > p.n,
          quiet |->
            IF pushes' \ pushes # {} THEN TRUE
            ELSE IF watchlist' # watchlist \/ localStore' # localStore THEN FALSE
            ELSE hist.quiet]

\* ------------------------------------------------- recommendation engine
\* src/src/lib/recommendation.ts.  A string is the sequence of its characters;
\* a rating is held in tenths (8.5 is 85).

\* String.prototype.toLowerCase over the letters used here
Lower(c) ==
  CASE c = "A" -> "a" [] c = "B" -> "b" [] c = "E" -> "e" [] c = "N" -> "n"
    [] OTHER -> c

toLowerCase(str) == [k \in 1..Len(str) |-> Lower(str[k])]

\* String.prototype.includes: query occurs in str as a substring
StrIncludes(str, query) ==
  \E k \in 0..(Len(str) - Len(query)) : SubSeq(str, k + 1, k + Len(query)) = query

\* Array.prototype.includes
Includes(list, x) == \E k \in 1..Len(list) : list[k] = x


\* Array.prototype.slice(0, n)
Slice(list, n) == SubSeq(list, 1, IF Len(list) < n THEN Len(list) ELSE n)

TopN == 10
SimilarN == 6

\* Scores are held as integers: a total score times 6000, the least factor
\* that makes every weighted sub-score an integer for up to three selected
\* genres or moods; a similarity score times 2.  A score here is the exact
\* value of the expression the code evaluates.  The code evaluates it in
\* IEEE-754 doubles: two sums that are equal as real numbers can differ in
\* the last place as doubles (SumsAbove), while sums that differ as real
\* numbers differ by 1/6000 at least and compare as doubles as they do here.
\* 0.3 * matchCount / selectedGenres.length, lines 19-25 and 99
calculateGenreScore(movie, selectedGenres) ==
  IF Len(selectedGenres) = 0 THEN 1800
  ELSE (1800 * Len(SelectSeq(movie.genre, LAMBDA g : Includes(selectedGenres, toLowerCase(g)))))
         \div Len(selectedGenres)

\* 0.25 * matchCount / selectedMoods.length, lines 27-33 and 100
calculateMoodScore(movie, selectedMoods) ==
  IF Len(selectedMoods) = 0 THEN 1500
  ELSE (1500 * Len(SelectSeq(movie.mood_tags, LAMBDA m : Includes(selectedMoods, toLowerCase(m)))))
         \div Len(selectedMoods)

\* 0.25 * rating / 10, lines 35-37 and 101
calculateRatingScore(rating) == 15 * rating

\* 0.1 * Math.max(0, 1 - (currentYear - year) / 50), lines 39-43 and 102
calculateRecencyScore(year, currentYear) ==
  IF 600 - 12 * (currentYear - year) < 0 THEN 0 ELSE 600 - 12 * (currentYear - year)

\* 0.1 * step(awards.length), lines 45-51 and 103
calculateAwardsScore(awards) ==
  IF Len(awards) >= 3 THEN 600
  ELSE IF Len(awards) >= 2 THEN 480
  ELSE IF Len(awards) >= 1 THEN 360
  ELSE 180

\* the hard filters of lines 57-95, all at once: a movie stays in
\* filteredMovies iff it passes every filter that is applied
PassesFilters(movie, filters) ==
  /\ Len(filters.genres) > 0
       => \E k \in 1..Len(movie.genre) :
            Includes(filters.genres, toLowerCase(movie.genre[k]))
  /\ filters.minRating > 0 => movie.rating >= filters.minRating
  /\ (filters.language # <<>> /\ filters.language # <<"a", "l", "l">>)
       => toLowerCase(movie.language) = toLowerCase(filters.language)
  /\ movie.release_year >= filters.yearRange.min
  /\ movie.release_year <= filters.yearRange.max
  /\ filters.runtime = "short" => movie.runtime < 120
  /\ filters.runtime = "long" => movie.runtime >= 120
  /\ filters.searchQuery # <<>>
       => LET query == toLowerCase(filters.searchQuery)
          IN \/ StrIncludes(toLowerCase(movie.title), query)
             \/ \E k \in 1..Len(movie.actors) :
                  StrIncludes(toLowerCase(movie.actors[k]), query)
             \/ StrIncludes(toLowerCase(movie.director), query)

\* faulty variant of MatchReasons: the thresholds applied to the fractions
\* before they are weighted
MatchReasonsUnweighted(movie, filters) ==
  (IF calculateGenreScore(movie, filters.genres) > 270 THEN <<"Genre match">> ELSE <<>>)
  \o (IF calculateMoodScore(movie, filters.moods) > 180 THEN <<"Mood match">> ELSE <<>>)
  \o (IF movie.rating >= 85 THEN <<"Highly rated">> ELSE <<>>)
  \o (IF Len(movie.awards) > 0 THEN <<"Award winning">> ELSE <<>>)
  \o (IF movie.release_year >= 2020 THEN <<"Recent release">> ELSE <<>>)

\* lines 107-112
MatchReasons(movie, filters) ==
  (IF calculateGenreScore(movie, filters.genres) > 900 THEN <<"Genre match">> ELSE <<>>)
  \o (IF calculateMoodScore(movie, filters.moods) > 720 THEN <<"Mood match">> ELSE <<>>)
  \o (IF movie.rating >= 85 THEN <<"Highly rated">> ELSE <<>>)
  \o (IF Len(movie.awards) > 0 THEN <<"Award winning">> ELSE <<>>)
  \o (IF movie.release_year >= 2020 THEN <<"Recent release">> ELSE <<>>)

\* lines 98-119: { ...movie, score, matchReasons }
\* score is totalScore; terms holds the five terms of the sum of line 105,
\* in its order
Scored(movie, filters, currentYear) ==
  LET genreScore == calculateGenreScore(movie, filters.genres)
      moodScore == calculateMoodScore(movie, filters.moods)
      ratingScore == calculateRatingScore(movie.rating)
      recencyScore == calculateRecencyScore(movie.release_year, currentYear)
      awardsScore == calculateAwardsScore(movie.awards)
  IN [movie |-> movie,
      score |-> genreScore + moodScore + ratingScore + recencyScore + awardsScore,
      terms |-> <<genreScore, moodScore, ratingScore, recencyScore, awardsScore>>,
      matchReasons |-> MatchReasons(movie, filters)]

\* The pairs <<a, b>> of sums of line 105 that are equal as real numbers
\* while a is the larger double.  With no genre and no mood selected and a
\* release 50 years back or more, a rating of 7.0 with one award sums to
\* 0.3 + 0.25 + 0.175 + 0 + 0.06 = 0.7850000000000001 and a rating of 8.2
\* without awards to 0.3 + 0.25 + 0.205 + 0 + 0.03 = 0.785.  No other two
\* candidates of the catalogs tried are equal in score and differ in a term.
SumsAbove == { << <<1800, 1500, 1050, 0, 360>>, <<1800, 1500, 1230, 0, 180>> >> }

\* a.score > b.score on doubles: b.score - a.score < 0 in line 123
ScoreAbove(a, b) ==
  \/ a.score > b.score
  \/ a.score = b.score /\ <<a.terms, b.terms>> \in SumsAbove

\* one insertion of the stable sort((a, b) => b.score - a.score)
RECURSIVE InsertByScore(_, _)
InsertByScore(sorted, x) ==
  IF sorted = <<>> THEN <<x>>
  ELSE IF ScoreAbove(x, Head(sorted))
       THEN <<x>> \o sorted
       ELSE <<Head(sorted)>> \o InsertByScore(Tail(sorted), x)

RECURSIVE SortByScoreFrom(_, _)
SortByScoreFrom(sorted, rest) ==
  IF rest = <<>> THEN sorted
  ELSE SortByScoreFrom(InsertByScore(sorted, Head(rest)), Tail(rest))

SortByScore(list) == SortByScoreFrom(<<>>, list)

\* faulty variant of getRecommendations: no slice
getRecommendationsAll(moviesData, filters, currentYear) ==
  LET filteredMovies == SelectSeq(moviesData, LAMBDA m : PassesFilters(m, filters))
      scoredMovies == [k \in 1..Len(filteredMovies) |->
                         Scored(filteredMovies[k], filters, currentYear)]
  IN SortByScore(scoredMovies)

\* faulty variant of getRecommendations: the language filter left out
getRecommendationsAnyLanguage(moviesData, filters, currentYear) ==
  LET open == [filters EXCEPT !.language = <<>>]
      filteredMovies == SelectSeq(moviesData, LAMBDA m : PassesFilters(m, open))
      scoredMovies == [k \in 1..Len(filteredMovies) |->
                         Scored(filteredMovies[k], filters, currentYear)]
  IN Slice(SortByScore(scoredMovies), TopN)

\* lines 53-125
getRecommendations(moviesData, filters, currentYear) ==
  LET filteredMovies == SelectSeq(moviesData, LAMBDA m : PassesFilters(m, filters))
      scoredMovies == [k \in 1..Len(filteredMovies) |->
                         Scored(filteredMovies[k], filters, currentYear)]
  IN Slice(SortByScore(scoredMovies), TopN)

\* lines 128-136: m is kept for movie
IsSimilar(m, movie) ==
  /\ m.id # movie.id
  /\ \/ \E k \in 1..Len(m.genre) : Includes(movie.genre, m.genre[k])
     \/ \E k \in 1..Len(m.mood_tags) : Includes(movie.mood_tags, m.mood_tags[k])
     \/ m.director = movie.director

\* The pairs of ratings with one decimal (here in tenths) that are 0.5 apart
\* and whose difference as IEEE-754 doubles rounds below 0.5:
\* 0.7 - 0.2, 1.4 - 0.9, 2.3 - 1.8, 4.1 - 3.6 and 8.2 - 7.7 (the last one is
\* 0.4999999999999991).  Every other pair compares as its decimals do.
RoundsBelowHalf == {<<2, 7>>, <<9, 14>>, <<18, 23>>, <<36, 41>>, <<77, 82>>}

\* Math.abs(a - b) < 0.5 on doubles, line 147; a and b in tenths
AbsDiffBelowHalf(a, b) ==
  \/ a - b < 5 /\ b - a < 5
  \/ <<a, b>> \in RoundsBelowHalf
  \/ <<b, a>> \in RoundsBelowHalf

\* lines 139-150, times 2
similarityScore(m, movie) ==
  4 * Len(SelectSeq(m.genre, LAMBDA g : Includes(movie.genre, g)))
  + 3 * Len(SelectSeq(m.mood_tags, LAMBDA t : Includes(movie.mood_tags, t)))
  + (IF m.director = movie.director THEN 6 ELSE 0)
  + (IF AbsDiffBelowHalf(m.rating, movie.rating) THEN 2 ELSE 0)

\* one insertion of the stable sort((a, b) => b.similarityScore -
\* a.similarityScore), line 153; a similarity score is a multiple of 0.5 and
\* exact as a double
RECURSIVE InsertBySimilarity(_, _)
InsertBySimilarity(sorted, x) ==
  IF sorted = <<>> THEN <<x>>
  ELSE IF x.score > Head(sorted).score
       THEN <<x>> \o sorted
       ELSE <<Head(sorted)>> \o InsertBySimilarity(Tail(sorted), x)

RECURSIVE SortBySimilarityFrom(_, _)
SortBySimilarityFrom(sorted, rest) ==
  IF rest = <<>> THEN sorted
  ELSE SortBySimilarityFrom(InsertBySimilarity(sorted, Head(rest)), Tail(rest))

SortBySimilarity(list) == SortBySimilarityFrom(<<>>, list)

\* lines 127-155
getSimilarMovies(moviesData, movie) ==
  LET similar == SelectSeq(moviesData, LAMBDA m : IsSimilar(m, movie))
      scored == [k \in 1..Len(similar) |->
                   [movie |-> similar[k], score |-> similarityScore(similar[k], movie)]]
  IN Slice(SortBySimilarity(scored), SimilarN)

\* ------------------------------------------------------------------ Init
\* What an earlier session can have left in the slot: nothing, text that is
\* not JSON, or the list it saved (one movie, not among those clicked here).
StoredList == <<Item(MaxId + 1, 0)>>

\* Before the component that calls the hook has rendered: no user resolved
\* yet, nothing in flight.
SysStart ==
  /\ phase = "unmounted"
  /\ user = NoUser
  /\ \/ storeKind \in {"absent", "corrupt"} /\ localStore = <<>>
     \/ storeKind = "json" /\ localStore = StoredList
  /\ watchlist = <<>>
  /\ syncing = FALSE
  /\ remote = [u \in Uids |-> IF u \in NewUids THEN NoDoc ELSE BareDoc]
  /\ syncs = <<>>
  /\ pushes = {}
  /\ now = 0
  /\ events = 0
  /\ last = Step("init", NoRun)

\* a second instance that has not rendered yet
NoCard == [phase |-> "unmounted", watchlist |-> <<>>]

SysInit == SysStart /\ hist = NoHist /\ card = NoCard

MergeIdle ==
  /\ mLocal = <<>>
  /\ mCloud = <<>>
  /\ mOut = <<>>
  /\ mPrev = <<>>
  /\ mPc = "idle"

\* ------------------------------------------------------------ first render
\* faulty variant of Mount: the stored list is not read
MountEmpty ==
  /\ phase = "unmounted"
  /\ mPc = "idle"
  /\ phase' = IF storeKind = "corrupt" THEN "crashed" ELSE "mounted"
  /\ last' = Step(IF storeKind = "corrupt" THEN "crash" ELSE "mount", NoRun)
  /\ UNCHANGED <<user, watchlist, syncing, localStore, storeKind, remote, syncs, pushes, now,
                 events, mLocal, mCloud, mOut, mPrev, mPc, rIn, rOut, rPc, card>>
  /\ Observe

\* useState initializer, lines 14-20: stored ? JSON.parse(stored) : [].
\* JSON.parse throws a SyntaxError on text that is not JSON; nothing catches
\* it, so the first render fails and the hook returns nothing.
Mount ==
  /\ phase = "unmounted"
  /\ mPc = "idle"
  /\ IF storeKind = "corrupt"
     THEN /\ phase' = "crashed"
          /\ last' = Step("crash", NoRun)
          /\ UNCHANGED watchlist
     ELSE /\ phase' = "mounted"
          /\ last' = Step("mount", NoRun)
          /\ watchlist' = IF storeKind = "json" THEN localStore ELSE <<>>
  /\ UNCHANGED <<user, syncing, localStore, storeKind, remote, syncs, pushes, now, events,
                 mLocal, mCloud, mOut, mPrev, mPc, rIn, rOut, rPc, card>>
  /\ Observe

\* --------------------------------------------------------- identity change
\* useEffect(..., [user]) with a non-null user: setSyncing(true), getDoc issued.
Login(u) ==
  /\ u # user
  /\ user' = u
  /\ syncing' = TRUE
  /\ syncs' = Append(syncs, Run(u, "fetch", NoDoc, <<>>, <<>>, FALSE))
  /\ last' = Step("login", syncs'[Len(syncs')])
  /\ UNCHANGED <<watchlist, localStore, storeKind, remote, pushes, now>>

\* faulty variant of Logout: the list is cleared when the user goes
LogoutWipes ==
  /\ user # NoUser
  /\ user' = NoUser
  /\ watchlist' = <<>>
  /\ localStore' = <<>>
  /\ storeKind' = "json"
  /\ last' = Step("logout", NoRun)
  /\ UNCHANGED <<syncing, remote, syncs, pushes, now>>

\* useEffect(..., [user]) with user = null: if (!user) return
Logout ==
  /\ user # NoUser
  /\ user' = NoUser
  /\ last' = Step("logout", NoRun)
  /\ UNCHANGED <<watchlist, syncing, localStore, storeKind, remote, syncs, pushes, now>>

\* the server answers getDoc with the document as it is now
FetchServed(k) ==
  /\ syncs[k].pc = "fetch"
  /\ syncs' = [syncs EXCEPT ![k].pc = "fetched", ![k].snap = remote[syncs[k].uid]]
  /\ last' = Step("fetchServed", syncs'[k])
  /\ UNCHANGED <<user, watchlist, syncing, localStore, storeKind, remote, pushes, now, events>>

\* faulty variant of SyncFetchOk: line 61 left out, merged is not persisted
SyncFetchOkNoPersist(k) ==
  /\ syncs[k].pc = "fetched"
  /\ LET merged == mergeWatchlists(localStore, cloudWatchlist(syncs[k].snap))
     IN /\ watchlist' = merged
        /\ syncs' = [TouchIf(merged # watchlist, syncs)
                       EXCEPT ![k] = Run(syncs[k].uid, "write", syncs[k].snap,
                                         merged, localStore, FALSE)]
        /\ last' = Step("fetchOk", syncs'[k])
  /\ UNCHANGED <<user, syncing, localStore, storeKind, remote, pushes, now, events>>

\* faulty variant of SyncFetchOk: the local store is not read after the fetch;
\* what the run holds from its start (local0, nothing) is merged
SyncFetchOkCaptured(k) ==
  /\ syncs[k].pc = "fetched"
  /\ LET merged == mergeWatchlists(syncs[k].local0, cloudWatchlist(syncs[k].snap))
         ss == TouchIf(merged # watchlist \/ merged # localStore, syncs)
     IN /\ watchlist' = merged
        /\ localStore' = merged
        /\ storeKind' = "json"
        /\ syncs' = [ss EXCEPT ![k] = Run(syncs[k].uid, "write", syncs[k].snap,
                                          merged, localStore, FALSE)]
        /\ last' = Step("fetchOk", syncs'[k])
  /\ UNCHANGED <<user, syncing, remote, pushes, now, events>>

\* await getDoc resumes: lines 52-64
SyncFetchOk(k) ==
  /\ syncs[k].pc = "fetched"
  /\ LET merged == mergeWatchlists(localStore, cloudWatchlist(syncs[k].snap))
         ss == TouchIf(merged # watchlist \/ merged # localStore, syncs)
     IN /\ watchlist' = merged
        /\ localStore' = merged
        /\ storeKind' = "json"
        /\ syncs' = [ss EXCEPT ![k] = Run(syncs[k].uid, "write", syncs[k].snap,
                                          merged, localStore, FALSE)]
        /\ last' = Step("fetchOk", syncs'[k])
  /\ UNCHANGED <<user, syncing, remote, pushes, now, events>>

\* faulty variant of SyncFetchFail: no finally, the flag is left set
SyncFetchFailNoFinally(k) ==
  /\ syncs[k].pc = "fetch"
  /\ syncs' = [syncs EXCEPT ![k] = NoRun]
  /\ last' = Step("fetchFail", syncs[k])
  /\ UNCHANGED <<user, watchlist, syncing, localStore, storeKind, remote, pushes, now, events>>

\* getDoc rejects: catch (line 65), finally setSyncing(false)
SyncFetchFail(k) ==
  /\ syncs[k].pc = "fetch"
  /\ syncing' = FALSE
  /\ syncs' = [syncs EXCEPT ![k] = NoRun]
  /\ last' = Step("fetchFail", syncs[k])
  /\ UNCHANGED <<user, watchlist, localStore, storeKind, remote, pushes, now, events>>

\* faulty variant of SyncWriteOk: only what this identity's document held is
\* written back
SyncWriteOkOwnOnly(k) ==
  /\ syncs[k].pc = "write"
  /\ remote' = [remote EXCEPT ![syncs[k].uid] = setDoc(@, cloudWatchlist(syncs[k].snap))]
  /\ syncing' = FALSE
  /\ syncs' = [syncs EXCEPT ![k] = NoRun]
  /\ last' = Step("writeOk", syncs[k])
  /\ UNCHANGED <<user, watchlist, localStore, storeKind, pushes, now, events>>

\* await setDoc resolves: finally setSyncing(false)
SyncWriteOk(k) ==
  /\ syncs[k].pc = "write"
  /\ remote' = [remote EXCEPT ![syncs[k].uid] = setDoc(@, syncs[k].merged)]
  /\ syncing' = FALSE
  /\ syncs' = [syncs EXCEPT ![k] = NoRun]
  /\ last' = Step("writeOk", syncs[k])
  /\ UNCHANGED <<user, watchlist, localStore, storeKind, pushes, now, events>>

\* await setDoc rejects: catch, finally setSyncing(false)
SyncWriteFail(k) ==
  /\ syncs[k].pc = "write"
  /\ syncing' = FALSE
  /\ syncs' = [syncs EXCEPT ![k] = NoRun]
  /\ last' = Step("writeFail", syncs[k])
  /\ UNCHANGED <<user, watchlist, localStore, storeKind, remote, pushes, now, events>>

\* ---------------------------------------------------------- local mutation
\* faulty variant of addToWatchlist: the some() test left out
addToWatchlistNoGuard(movieId) ==
  LET newList == Append(watchlist, Item(movieId, now))
  IN /\ watchlist' = newList
     /\ localStore' = newList
     /\ storeKind' = "json"
     /\ pushes' = pushIfUser(newList)
     /\ syncs' = Touch(syncs)
     /\ last' = Call(IF Some(watchlist, movieId) THEN "addDup" ELSE "add", movieId)
     /\ UNCHANGED <<user, syncing, remote, now>>

\* faulty variant of addToWatchlist: the new list is not persisted
addToWatchlistNoPersist(movieId) ==
  IF Some(watchlist, movieId)
  THEN /\ last' = Call("addDup", movieId)
       /\ UNCHANGED <<user, watchlist, syncing, localStore, storeKind, remote, syncs, pushes, now>>
  ELSE LET newList == Append(watchlist, Item(movieId, now))
       IN /\ watchlist' = newList
          /\ pushes' = pushIfUser(newList)
          /\ syncs' = Touch(syncs)
          /\ last' = Call("add", movieId)
          /\ UNCHANGED <<user, syncing, localStore, storeKind, remote, now>>

\* the updater of addToWatchlist, lines 93-106; h is the history of the call
addToWatchlistCall(movieId, h) ==
  IF Some(watchlist, movieId)
  THEN /\ last' = h
       /\ UNCHANGED <<user, watchlist, syncing, localStore, storeKind, remote, syncs, pushes, now>>
  ELSE LET newList == Append(watchlist, Item(movieId, now))
       IN /\ watchlist' = newList
          /\ localStore' = newList
          /\ storeKind' = "json"
          /\ pushes' = pushIfUser(newList)
          /\ syncs' = Touch(syncs)
          /\ last' = h
          /\ UNCHANGED <<user, syncing, remote, now>>

addToWatchlist(movieId) ==
  addToWatchlistCall(movieId, Call(IF Some(watchlist, movieId) THEN "addDup" ELSE "add", movieId))

\* the updater of removeFromWatchlist, lines 110-120; h is the history of the call
removeFromWatchlistCall(movieId, h) ==
  LET newList == FilterOut(watchlist, movieId)
  IN /\ watchlist' = newList
     /\ localStore' = newList
     /\ storeKind' = "json"
     /\ pushes' = pushIfUser(newList)
     /\ syncs' = TouchIf(newList # watchlist \/ newList # localStore, syncs)
     /\ last' = h
     /\ UNCHANGED <<user, syncing, remote, now>>

removeFromWatchlist(movieId) == removeFromWatchlistCall(movieId, Call("remove", movieId))

\* isInWatchlist over the list of the render the callback was made in; every
\* handler below is followed by a render, so that list is the current one.
isInWatchlist(movieId) == Some(watchlist, movieId)

\* a handler that calls toggleWatchlist once, lines 127-135
toggleWatchlist(movieId) ==
  IF isInWatchlist(movieId)
  THEN removeFromWatchlistCall(movieId,
         Toggled("toggle", movieId, "removed",
                 Change(watchlist, FilterOut(watchlist, movieId), movieId)))
  ELSE addToWatchlistCall(movieId,
         Toggled("toggle", movieId, "added",
                 Change(watchlist, Append(watchlist, Item(movieId, now)), movieId)))

\* prev => ... of addToWatchlist, lines 94-97, applied to the state prev
addUpdater(prev, movieId) ==
  IF Some(prev, movieId) THEN prev ELSE Append(prev, Item(movieId, now))

\* A handler that calls toggleWatchlist twice before the component renders
\* again.  Both calls run the callback of the same render, whose
\* isInWatchlist reads that render's watchlist (lines 123-125); the updaters
\* run in order, the second on the list the first returned.
toggleTwice(movieId) ==
  LET inList == isInWatchlist(movieId)
      first == IF inList THEN FilterOut(watchlist, movieId)
                         ELSE addUpdater(watchlist, movieId)
      second == IF inList THEN FilterOut(first, movieId)
                          ELSE addUpdater(first, movieId)
      \* the second updater writes unless it is the add of an id it finds
      wrote == IF inList \/ ~Some(first, movieId) THEN {second} ELSE {}
  IN /\ watchlist' = second
     /\ localStore' = IF wrote = {} THEN first ELSE second
     /\ storeKind' = "json"
     /\ pushes' = IF user # NoUser
                  THEN pushes \cup {Push(user, first, PushNo(1))}
                              \cup {Push(user, l, PushNo(2)) : l \in wrote}
                  ELSE pushes
     /\ syncs' = Touch(syncs)
     /\ last' = Toggled("toggleTwice", movieId,
                        IF inList THEN "removed" ELSE "added",
                        Change(first, second, movieId))
     /\ UNCHANGED <<user, syncing, remote, now>>

\* faulty variant of clearWatchlist: the remote write left out
clearWatchlistNoPush ==
  /\ watchlist' = <<>>
  /\ localStore' = <<>>
  /\ storeKind' = "json"
  /\ syncs' = TouchIf(watchlist # <<>> \/ localStore # <<>>, syncs)
  /\ last' = Call("clear", 0)
  /\ UNCHANGED <<user, syncing, remote, pushes, now>>

\* lines 137-145
clearWatchlist ==
  /\ watchlist' = <<>>
  /\ localStore' = <<>>
  /\ storeKind' = "json"
  /\ pushes' = pushIfUser(<<>>)
  /\ syncs' = TouchIf(watchlist # <<>> \/ localStore # <<>>, syncs)
  /\ last' = Call("clear", 0)
  /\ UNCHANGED <<user, syncing, remote, now>>

\* ------------------------------------------------------------ remote writes
\* faulty variant of PushOk: the list that lands is merged into the document's
PushOkMerges(p) ==
  /\ remote' = [remote EXCEPT ![p.uid] =
                  setDoc(@, mergeWatchlists(p.list, cloudWatchlist(@)))]
  /\ pushes' = pushes \ {p}
  /\ last' = Step("pushOk", Run(p.uid, "done", NoDoc, <<>>, <<>>, FALSE))
  /\ UNCHANGED <<user, watchlist, syncing, localStore, storeKind, syncs, now, events>>

\* faulty variant of PushOk: the write lands in the document of the identity
\* that is active when it arrives
PushOkToActive(p) ==
  /\ remote' = [remote EXCEPT ![IF user # NoUser THEN user ELSE p.uid] = setDoc(@, p.list)]
  /\ pushes' = pushes \ {p}
  /\ last' = Step("pushOk", Run(p.uid, "done", NoDoc, <<>>, <<>>, FALSE))
  /\ UNCHANGED <<user, watchlist, syncing, localStore, storeKind, syncs, now, events>>

\* a fire-and-forget setDoc lands
PushOk(p) ==
  /\ remote' = [remote EXCEPT ![p.uid] = setDoc(@, p.list)]
  /\ pushes' = pushes \ {p}
  /\ last' = Step("pushOk", Run(p.uid, "done", NoDoc, <<>>, <<>>, FALSE))
  /\ UNCHANGED <<user, watchlist, syncing, localStore, storeKind, syncs, now, events>>

\* faulty variant of PushFail: the list is rolled back to the document's
PushFailRollsBack(p) ==
  /\ pushes' = pushes \ {p}
  /\ watchlist' = cloudWatchlist(remote[p.uid])
  /\ localStore' = cloudWatchlist(remote[p.uid])
  /\ storeKind' = "json"
  /\ last' = Step("pushFail", Run(p.uid, "done", NoDoc, <<>>, <<>>, FALSE))
  /\ UNCHANGED <<user, syncing, remote, syncs, now, events>>

\* a fire-and-forget setDoc rejects: .catch(console.error)
PushFail(p) ==
  /\ pushes' = pushes \ {p}
  /\ last' = Step("pushFail", Run(p.uid, "done", NoDoc, <<>>, <<>>, FALSE))
  /\ UNCHANGED <<user, watchlist, syncing, localStore, storeKind, remote, syncs, now, events>>

\* Date.now() advances
Tick ==
  /\ now' = now + 1
  /\ UNCHANGED <<user, watchlist, syncing, localStore, storeKind, remote, syncs, pushes, last>>

\* a step of the environment (a click, an identity change, the clock): at most
\* MaxEvents of them in a behaviour
Event(step) ==
  /\ events < MaxEvents
  /\ events' = events + 1
  /\ step

\* a step of the mounted hook: the merge harness is off and stays off
Sys(step) ==
  /\ mPc = "idle"
  /\ phase = "mounted"
  /\ step
  /\ Observe
  /\ UNCHANGED <<phase, mLocal, mCloud, mOut, mPrev, mPc, rIn, rOut, rPc, card>>

\* ---------------------------------------------------------- second instance
\* Every component that calls the hook gets its own state: MovieCard
\* (part_003, line 48), the Navbar (part_006, line 53) and the watchlist page
\* (part_002, line 26) each hold a list of their own over the one localStorage
\* slot.  The second instance is followed while nobody is logged in, so its
\* own loadAndMerge returns at line 45.

\* the initializer of the second instance, lines 14-20
CardMount ==
  /\ mPc = "idle"
  /\ card.phase = "unmounted"
  /\ user = NoUser
  /\ card' = IF storeKind = "corrupt"
             THEN [phase |-> "crashed", watchlist |-> <<>>]
             ELSE [phase |-> "mounted",
                   watchlist |-> IF storeKind = "json" THEN localStore ELSE <<>>]
  /\ UNCHANGED <<phase, user, watchlist, syncing, localStore, storeKind, remote, syncs,
                 pushes, now, events, last, hist, mLocal, mCloud, mOut, mPrev, mPc,
                 rIn, rOut, rPc>>

\* addToWatchlist of the second instance, lines 92-107, on its own prev
cardAdd(movieId) ==
  IF Some(card.watchlist, movieId)
  THEN /\ last' = Call("cardAddDup", movieId)
       /\ UNCHANGED <<card, localStore, storeKind, pushes, syncs>>
  ELSE LET newList == Append(card.watchlist, Item(movieId, now))
       IN /\ card' = [card EXCEPT !.watchlist = newList]
          /\ localStore' = newList
          /\ storeKind' = "json"
          /\ pushes' = pushIfUser(newList)
          /\ syncs' = TouchIf(newList # localStore, syncs)
          /\ last' = Call("cardAdd", movieId)

\* removeFromWatchlist of the second instance, lines 109-121, on its own prev
cardRemove(movieId) ==
  LET newList == FilterOut(card.watchlist, movieId)
  IN /\ card' = [card EXCEPT !.watchlist = newList]
     /\ localStore' = newList
     /\ storeKind' = "json"
     /\ pushes' = pushIfUser(newList)
     /\ syncs' = TouchIf(newList # localStore, syncs)
     /\ last' = Call("cardRemove", movieId)

\* handleWatchlistClick of MovieCard: toggleWatchlist(movie), lines 127-135
cardToggle(movieId) ==
  IF Some(card.watchlist, movieId) THEN cardRemove(movieId) ELSE cardAdd(movieId)

\* a click on the second instance, nobody logged in
Card(step) ==
  /\ mPc = "idle"
  /\ card.phase = "mounted"
  /\ user = NoUser
  /\ events < MaxEvents
  /\ events' = events + 1
  /\ step
  /\ UNCHANGED <<phase, user, watchlist, syncing, remote, now, hist, mLocal, mCloud, mOut,
                 mPrev, mPc, rIn, rOut, rPc>>

\* ----------------------------------------------------------- merge harness
\* mergeWatchlists applied to every pair of bounded lists: watchlists (one
\* entry per id) stamped 0..MaxStamp, and arbitrary lists (ids may repeat, as
\* in a local store written by something else) stamped 0..1.
SeqsUpTo(S, n) == UNION {[1..k -> S] : k \in 0..n}

Stamped(T) == {Item(i, t) : i \in Ids, t \in T}

Watchlists == {l \in SeqsUpTo(Stamped(0..MaxStamp), MaxId) : NoDup(l)}

AnyLists == SeqsUpTo(Stamped(0..1), MaxId)

MergeInit ==
  /\ \/ mLocal \in Watchlists /\ mCloud \in Watchlists
     \/ mLocal \in AnyLists /\ mCloud \in AnyLists
  /\ mOut = <<>>
  /\ mPrev = <<>>
  /\ mPc = "in"

\* merge(L, R)
MergeOnce ==
  /\ mPc = "in"
  /\ mOut' = mergeWatchlists(mLocal, mCloud)
  /\ mPrev' = mOut
  /\ mPc' = "merged"
  /\ UNCHANGED <<mLocal, mCloud>>

\* merge(merge(L, R), R)
MergeAgain ==
  /\ mPc = "merged"
  /\ mOut' = mergeWatchlists(mOut, mCloud)
  /\ mPrev' = mOut
  /\ mPc' = "again"
  /\ UNCHANGED <<mLocal, mCloud>>

\* merge(L, L)
MergeSelf ==
  /\ mPc = "in"
  /\ mOut' = mergeWatchlists(mLocal, mLocal)
  /\ mPrev' = mOut
  /\ mPc' = "self"
  /\ UNCHANGED <<mLocal, mCloud>>

\* a step of the harness: the hook stays in its initial state
Harness(step) ==
  /\ step
  /\ UNCHANGED <<sysVars, recVars>>

\* ------------------------------------------- recommendation engine inputs
\* moviesData is a static catalog.  The catalogs tried are the first n movies,
\* n = 0..MaxCatalog, of a list whose fields cycle with different periods.
MaxCatalog == 12

Pick(list, i) == list[(i % Len(list)) + 1]

Movie(i) ==
  [id |-> i,
   title |-> Pick(<< <<"B", "e", "n">>, <<"a", "b">>, <<"n", "a">> >>, i),
   genre |-> Pick(<< << <<"A">> >>, << <<"b">> >>, << <<"A">>, <<"B">> >>, << <<"e">> >> >>, i),
   mood_tags |-> Pick(<< << <<"N">> >>, << <<"e">>, <<"n">> >>, <<>> >>, i),
   rating |-> Pick(<<60, 84, 85, 90, 70>>, i),
   release_year |-> Pick(<<1960, 2019, 2020, 2023>>, i),
   runtime |-> Pick(<<119, 120, 150>>, i),
   language |-> Pick(<< <<"E", "n">>, <<"b", "e">> >>, i),
   actors |-> Pick(<< << <<"A", "n", "n">> >>, <<>>, << <<"e">>, <<"N", "e", "b">> >> >>, i),
   director |-> Pick(<< <<"B", "e">>, <<"N", "a", "b">>, <<"e", "e">> >>, i),
   awards |-> Pick(<< <<>>, <<"x">>, <<"x", "y">>, <<"x", "y", "z">>, <<>> >>, i)]

\* a second entry with the rating, year, genres, moods and awards of Movie(i)
Twin(i) == [Movie(i) EXCEPT !.id = MaxCatalog + i, !.title = <<"n", "a", "b">>]

\* the first n movies, each followed later by its twin
WithTwins(n) == [k \in 1..(2 * n) |-> IF k <= n THEN Movie(k) ELSE Twin(k - n)]

Catalogs ==
  {[k \in 1..n |-> Movie(k)] : n \in 0..MaxCatalog} \cup {WithTwins(n) : n \in {3, 6}}

\* the filters of resetFilters (MovieForm.tsx): nothing selected
DefaultFilters ==
  [genres |-> <<>>, moods |-> <<>>, minRating |-> 0, language |-> <<"a", "l", "l">>,
   yearRange |-> [min |-> 1900, max |-> 2024], runtime |-> "any", searchQuery |-> <<>>]

FilterSpecs ==
  [genres : {<<>>, << <<"a">> >>, << <<"A">> >>, << <<"a">>, <<"b">> >>},
   moods : {<<>>, << <<"n">>, <<"e">> >>},
   minRating : {0, 85},
   language : {<<"a", "l", "l">>, <<>>, <<"E", "N">>},
   yearRange : {[min |-> 1900, max |-> 2024], [min |-> 2019, max |-> 2020]},
   runtime : {"any", "short", "long"},
   searchQuery : {<<>>, <<"b", "E">>, <<"n">>}]

CurrentYears == {2024, 2030}

\* a catalog of two movies, an action movie and a drama, and a request for
\* action movies with every other filter as resetFilters leaves it
Action == <<"a", "c", "t", "i", "o", "n">>
Drama == <<"d", "r", "a", "m", "a">>

TwoMovies ==
  << [Movie(1) EXCEPT !.id = 1, !.genre = <<Action>>, !.rating = 90,
                      !.release_year = 2021, !.awards = <<>>],
     [Movie(2) EXCEPT !.id = 2, !.genre = <<Drama>>, !.rating = 60,
                      !.release_year = 1990, !.awards = <<"x">>] >>

ActionFilters == [DefaultFilters EXCEPT !.genres = <<Action>>]

\* a catalog for getSimilarMovies: a movie rated 8.2, one rated 7.7 that
\* shares a genre with it, and one rated 8.0 that shares a mood with it
NearRatings ==
  << [Movie(1) EXCEPT !.rating = 82],
     [Movie(5) EXCEPT !.rating = 77],
     [Movie(3) EXCEPT !.rating = 80, !.mood_tags = << <<"e">> >>] >>

\* a catalog of two old movies: one rated 8.2 without awards, then one rated
\* 7.0 with one award; with nothing selected their total scores are equal
EqualTotals ==
  << [Movie(1) EXCEPT !.rating = 82, !.release_year = 1960, !.awards = <<>>],
     [Movie(2) EXCEPT !.rating = 70, !.release_year = 1960, !.awards = <<"x">>] >>

RecInput(catalog, filters, year, movie) ==
  [catalog |-> catalog, filters |-> filters, year |-> year, movie |-> movie]

RecIdle ==
  /\ rIn = RecInput(<<>>, DefaultFilters, 2024, Movie(1))
  /\ rOut = <<>>
  /\ rPc = "idle"

\* every call tried: getRecommendations on every catalog with every filter
\* specification, getSimilarMovies on every catalog with every movie
RecInit ==
  /\ SysInit /\ storeKind = "absent"
  /\ MergeIdle
  /\ \/ \E c \in Catalogs, f \in FilterSpecs, y \in CurrentYears :
          rIn = RecInput(c, f, y, Movie(1))
     \/ \E c \in Catalogs, i \in 1..MaxCatalog :
          rIn = RecInput(c, DefaultFilters, 2024, Movie(i))
     \/ \E y \in CurrentYears, i \in 1..2 :
          rIn = RecInput(TwoMovies, ActionFilters, y, TwoMovies[i])
     \/ \E i \in 1..Len(NearRatings) :
          rIn = RecInput(NearRatings, DefaultFilters, 2024, NearRatings[i])
     \/ \E y \in CurrentYears, i \in 1..Len(EqualTotals) :
          rIn = RecInput(EqualTotals, DefaultFilters, y, EqualTotals[i])
  /\ rOut = <<>>
  /\ rPc = "in"

Recommend ==
  /\ rPc = "in"
  /\ rOut' = getRecommendations(rIn.catalog, rIn.filters, rIn.year)
  /\ rPc' = "recs"
  /\ UNCHANGED <<rIn, sysVars, mergeVars>>

Similar ==
  /\ rPc = "in"
  /\ rOut' = getSimilarMovies(rIn.catalog, rIn.movie)
  /\ rPc' = "similar"
  /\ UNCHANGED <<rIn, sysVars, mergeVars>>

RecNext == Recommend \/ Similar

RecSpec == RecInit /\ [][RecNext]_vars

\* ------------------------------------------------------------ specification
\* Either the hook runs (harness idle), or the harness runs on the hook's
\* initial state.
\* the recommendation engine is not called; the merge harness is off or not
Start ==
  /\ RecIdle
  /\ \/ MergeIdle
     \/ MergeInit /\ storeKind = "absent"

Init == SysInit /\ Start

Next ==
  \/ Mount
  \/ \E u \in Uids : Sys(Event(Login(u)))
  \/ Sys(Event(Logout))
  \/ \E k \in 1..Len(syncs) : Sys(FetchServed(k))
  \/ \E k \in 1..Len(syncs) : Sys(SyncFetchOk(k))
  \/ \E k \in 1..Len(syncs) : Sys(SyncFetchFail(k))
  \/ \E k \in 1..Len(syncs) : Sys(SyncWriteOk(k))
  \/ \E k \in 1..Len(syncs) : Sys(SyncWriteFail(k))
  \/ \E m \in Ids : Sys(Event(addToWatchlist(m)))
  \/ \E m \in Ids : Sys(Event(removeFromWatchlist(m)))
  \/ \E m \in Ids : Sys(Event(toggleWatchlist(m)))
  \/ \E m \in Ids : Sys(Event(toggleTwice(m)))
  \/ Sys(Event(clearWatchlist))
  \/ \E p \in pushes : Sys(PushOk(p))
  \/ \E p \in pushes : Sys(PushFail(p))
  \/ Sys(Event(Tick))
  \/ Harness(MergeOnce)
  \/ Harness(MergeAgain)
  \/ Harness(MergeSelf)

Spec == Init /\ [][Next]_vars

\* Every remote operation eventually resolves or rejects, and a resolved await
\* resumes: a run in flight eventually takes its next step.
RunStep(k) ==
  /\ k \in 1..Len(syncs)
  /\ \/ FetchServed(k)
     \/ SyncFetchOk(k)
     \/ SyncFetchFail(k)
     \/ SyncWriteOk(k)
     \/ SyncWriteFail(k)

\* The behaviours with at most MaxFairEvents events, in which a run that can
\* take a step eventually does.
FairNext == Next /\ events' <= MaxFairEvents

FairSpec ==
  Init /\ [][FairNext]_vars /\ WF_vars(\E k \in 1..MaxFairEvents : Sys(RunStep(k)))

\* The behaviours with at most MaxHistEvents events, with the history kept.
HistInit == SysStart /\ hist = [NoHist EXCEPT !.track = TRUE] /\ card = NoCard /\ Start

HistNext == Next /\ events' <= MaxHistEvents

HistSpec == HistInit /\ [][HistNext]_vars

\* The behaviours of two instances on one page while nobody is logged in.
TwoNext ==
  \/ Next /\ user' = NoUser
  \/ CardMount
  \/ \E m \in Ids : Card(cardToggle(m))

TwoSpec == Init /\ [][TwoNext]_vars

\* ------------------------------------------------------------------ claims
Merged == mPc \in {"merged", "again", "self"}

\* newest first: no entry is followed by one with a larger addedAt
Desc(list) == \A a, b \in 1..Len(list) : a < b => list[a].addedAt >= list[b].addedAt

\* the entry Map.set leaves under id k after local.forEach: the last one of L
LastWithId(L, k) ==
  L[CHOOSE a \in 1..Len(L) :
      L[a].id = k /\ \A b \in 1..Len(L) : L[b].id = k => b <= a]

IndexOf(list, x) == CHOOSE a \in 1..Len(list) : list[a] = x

\* out is src sorted by addedAt descending, entries with equal addedAt in the
\* order they have in src (src without repeated entries)
IsStableSortDesc(out, src) ==
  /\ Len(out) = Len(src)
  /\ Range(out) = Range(src)
  /\ Desc(out)
  /\ \A a, b \in 1..Len(src) :
       a < b /\ src[a].addedAt = src[b].addedAt
         => IndexOf(out, src[a]) < IndexOf(out, src[b])

\* the watchlist a run fetched: the document's field, empty when the document
\* or the field is absent
Fetched(r) == IF r.snap.exists /\ r.snap.hasList THEN r.snap.watchlist ELSE <<>>

\* C1: at most one entry per id, in every reachable state: the in-memory
\* watchlist, the local store and every remote watchlist hold no two entries
\* with the same id, and neither does any output of mergeWatchlists, whatever
\* its two arguments are (repeated ids included).
C1_UniqueIds ==
  /\ NoDup(watchlist)
  /\ NoDup(localStore)
  /\ \A u \in Uids : NoDup(remote[u].watchlist)
  /\ Merged => NoDup(mOut)

\* C1 witness: a sync has merged and written back a list of two entries.
C1_Witness ==
  /\ last.op = "writeOk"
  /\ Len(watchlist) >= 2
  /\ Len(remote[last.uid].watchlist) >= 2

\* C2: local priority: after merge(L, R) every id of L is held exactly once,
\* by L's entry for it (the one Map.set left, L's last for that id), and no
\* entry of R for an id of L that differs from L's entry is in the output.
C2_LocalPriority ==
  mPc = "merged" =>
    /\ \A k \in SeqIds(mLocal) :
         /\ Cardinality({a \in 1..Len(mOut) : mOut[a].id = k}) = 1
         /\ LastWithId(mLocal, k) \in Range(mOut)
    /\ \A r \in Range(mCloud) :
         r.id \in SeqIds(mLocal) /\ r # LastWithId(mLocal, r.id)
           => r \notin Range(mOut)

\* C2 witness: an id is in both lists and the remote copy is the newer one.
C2_Witness ==
  /\ mPc = "merged"
  /\ \E a \in 1..Len(mLocal), b \in 1..Len(mCloud) :
       /\ mLocal[a].id = mCloud[b].id
       /\ mLocal[a].addedAt < mCloud[b].addedAt

\* C3: no data loss in merge: the ids of merge(L, R) are the ids of L and the
\* ids of R together; and while a sync that has installed its merged list
\* awaits its write with the list unchanged since, the in-memory watchlist and
\* the local store hold exactly the ids the local store and the fetched
\* document held.
C3_NoDataLoss ==
  /\ mPc = "merged" => SeqIds(mOut) = SeqIds(mLocal) \cup SeqIds(mCloud)
  /\ \A k \in 1..Len(syncs) :
       syncs[k].pc = "write" /\ ~syncs[k].touched =>
         /\ SeqIds(watchlist) =
              SeqIds(syncs[k].local0) \cup SeqIds(Fetched(syncs[k]))
         /\ SeqIds(localStore) = SeqIds(watchlist)

\* C3 witness: a sync has just installed a list that took an id from the local
\* store only and another from the fetched document only.
C3_Witness ==
  \E k \in 1..Len(syncs) :
    /\ syncs[k].pc = "write" /\ ~syncs[k].touched
    /\ SeqIds(syncs[k].local0) \ SeqIds(Fetched(syncs[k])) # {}
    /\ SeqIds(Fetched(syncs[k])) \ SeqIds(syncs[k].local0) # {}

\* C4: ordering: in every reachable state the watchlist the hook returns is
\* sorted by addedAt descending, and so is every output of mergeWatchlists.
C4_NewestFirst ==
  /\ Desc(watchlist)
  /\ Merged => Desc(mOut)

\* C5: merge idempotence: merge(merge(A, B), B) is merge(A, B), entry for
\* entry; and merge(X, X), for a watchlist X, is X stably sorted by addedAt
\* descending.
C5_Idempotent ==
  /\ mPc = "again" => mOut = mPrev
  /\ mPc = "self" /\ NoDup(mLocal) => IsStableSortDesc(mOut, mLocal)

\* C5 witness: a second merge of a result that holds two entries with the same
\* addedAt, one from each argument.
C5_Witness ==
  /\ mPc = "again"
  /\ mLocal # <<>> /\ mCloud # <<>>
  /\ \E a, b \in 1..Len(mOut) :
       a < b /\ mOut[a].addedAt = mOut[b].addedAt
       /\ mOut[a] \in Range(mCloud) /\ mOut[b] \in Range(mLocal)

\* C6: successful sync postcondition: when the write of a sync that fetched
\* and merged succeeds, and the list has not changed since the merge was
\* installed, the in-memory watchlist, the local store and the watchlist field
\* of that identity's document all equal merge(local store as read, fetched
\* watchlist), an absent document or an absent field counting as empty.
C6_SyncPostcondition ==
  [][\A k \in 1..Len(syncs) :
       ( /\ syncs[k].pc = "write" /\ ~syncs[k].touched
         /\ syncs'[k].pc = "done" /\ last'.op = "writeOk" )
       => LET m == mergeWatchlists(syncs[k].local0, Fetched(syncs[k]))
          IN /\ watchlist' = m
             /\ localStore' = m
             /\ remote'[syncs[k].uid].exists
             /\ remote'[syncs[k].uid].hasList
             /\ remote'[syncs[k].uid].watchlist = m]_vars

\* C6 witness: a sync's write has just succeeded with a list of two entries,
\* unchanged since it was merged.
C6_Witness ==
  /\ last.op = "writeOk" /\ last.clean
  /\ Len(watchlist) = 2
  /\ remote[last.uid].watchlist = watchlist
  /\ localStore = watchlist

\* C7: an identity change to null takes no action: the in-memory watchlist,
\* the local store, the syncing flag, every remote document and the sets of
\* remote reads and writes in flight are as before.
C7_NullIdentityNoAction ==
  [][(user # NoUser /\ user' = NoUser)
       => UNCHANGED <<watchlist, localStore, syncing, remote, syncs, pushes>>]_vars

\* C7 witness: a logout with a non-empty watchlist while a sync is in flight.
C7_Witness ==
  /\ last.op = "logout"
  /\ user = NoUser
  /\ syncing
  /\ watchlist # <<>>
  /\ \E k \in 1..Len(syncs) : InFlight(syncs[k])

\* C9: after a failed remote read the in-memory watchlist and the local store
\* equal merge(local, empty list), and syncing is cleared.
C9_ReadFailureMergesLocal ==
  last.op = "fetchFail" =>
    /\ watchlist = mergeWatchlists(localStore, <<>>)
    /\ localStore = mergeWatchlists(localStore, <<>>)
    /\ syncing = FALSE

\* C10: a remote write failure (the sync's write-back or a push of add, remove
\* or clear) changes neither the in-memory watchlist nor the local store nor
\* any document, and issues no new write: the failed write leaves the writes
\* in flight and nothing joins them.  A sync whose list has not changed since
\* its merge leaves memory and local store equal to the merged list.
C10_WriteFailureKeepsLocal ==
  [][/\ \A k \in 1..Len(syncs) :
          ( syncs[k].pc = "write" /\ syncs'[k].pc = "done" /\ last'.op = "writeFail" )
          => /\ UNCHANGED <<watchlist, localStore, remote, pushes>>
             /\ \A j \in 1..Len(syncs) : j # k => syncs'[j] = syncs[j]
             /\ ~syncs[k].touched =>
                  watchlist' = syncs[k].merged /\ localStore' = syncs[k].merged
     /\ ( last'.op = "pushFail" /\ pushes' # pushes )
          => /\ UNCHANGED <<watchlist, localStore, remote, syncs>>
             /\ pushes' \subseteq pushes]_vars

\* C10 witness: a push has just failed; the entry it carried is in memory and
\* in the local store and not in the document.
C10_Witness ==
  /\ last.op = "pushFail"
  /\ watchlist # <<>>
  /\ localStore = watchlist
  /\ cloudWatchlist(remote[last.uid]) = <<>>
  /\ pushes = {}

\* C8: every sync that sets syncing = true eventually sets syncing = false:
\* every run in flight eventually ends, whether its read and its write succeed
\* or fail, a run that ends sets syncing to false, and so syncing never stays
\* true for ever.
C8_SyncingClears ==
  /\ \A k \in 1..MaxEvents :
       (k <= Len(syncs) /\ InFlight(syncs[k])) ~> (k <= Len(syncs) /\ syncs[k].pc = "done")
  /\ [][\A k \in 1..Len(syncs) :
          InFlight(syncs[k]) /\ syncs'[k].pc = "done" => syncing' = FALSE]_vars
  /\ syncing ~> ~syncing

\* C8 witness: a run has ended on a failed read while another run was in
\* flight, and syncing is false.
C8_Witness ==
  /\ last.op = "fetchFail"
  /\ syncing = FALSE
  /\ \E k \in 1..Len(syncs) : InFlight(syncs[k])

\* a step in which the hook's operation op is called (the clock stands still
\* during a call)
Called(op) == last'.op = op /\ events' = events + 1 /\ now' = now

\* C11: duplicate add is a no-op: add(item) with item.id already in the
\* in-memory watchlist leaves the watchlist and the local store as they are
\* and issues no remote write.
C11_DuplicateAddNoOp ==
  [][((Called("add") \/ Called("addDup")) /\ Some(watchlist, last'.id))
       => UNCHANGED <<watchlist, localStore, remote, pushes>>]_vars

\* C11 witness: a duplicate add under an active identity with no push in
\* flight.
C11_Witness ==
  /\ last.op = "addDup"
  /\ user # NoUser
  /\ pushes = {}
  /\ Some(watchlist, last.id)

\* C12: add(item) with an id not in the watchlist: afterwards the id is
\* present, the list is the old list followed by one entry for the id with
\* addedAt = now, and the local store holds the new list.
C12_AddAppends ==
  [][((Called("add") \/ Called("addDup")) /\ ~Some(watchlist, last'.id))
       => /\ Some(watchlist', last'.id)
          /\ Len(watchlist') = Len(watchlist) + 1
          /\ \A k \in 1..Len(watchlist) : watchlist'[k] = watchlist[k]
          /\ watchlist'[Len(watchlist')] = [id |-> last'.id, addedAt |-> now]
          /\ localStore' = watchlist']_vars

\* C12 witness: a second entry has just been added at a later time than the
\* first.
C12_Witness ==
  /\ last.op = "add"
  /\ Len(watchlist) = 2
  /\ watchlist[2].id = last.id
  /\ watchlist[2].addedAt > watchlist[1].addedAt
  /\ localStore = watchlist

\* a is a sub-sequence of b: the entries of a, in a's order, are entries of b
\* in b's order (lists without repeated entries)
KeepsOrder(a, b) ==
  /\ Range(a) \subseteq Range(b)
  /\ \A i, j \in 1..Len(a) : i < j => IndexOf(b, a[i]) < IndexOf(b, a[j])

\* C13: remove(id): afterwards the id is absent and every other entry is in
\* place in the same relative order; remove of an absent id leaves the list
\* as it is.
C13_RemoveKeepsOthers ==
  [][Called("remove")
       => /\ ~Some(watchlist', last'.id)
          /\ Range(watchlist') = {e \in Range(watchlist) : e.id # last'.id}
          /\ KeepsOrder(watchlist', watchlist)
          /\ ~Some(watchlist, last'.id) => watchlist' = watchlist]_vars

\* C13 witness: the first of two entries has just been removed.
C13_Witness ==
  /\ last.op = "remove"
  /\ Len(watchlist) = 1
  /\ watchlist[1].id # last.id
  /\ watchlist[1].addedAt > 0

\* C14: toggle is its own inverse: toggle(x) followed by toggle(x) leaves the
\* set of ids as it was before the first call, whether the two calls are made
\* by two handlers with a render in between or by one handler.
C14_ToggleInverse ==
  [][/\ ( last.op = "toggle" /\ Called("toggle") /\ last'.id = last.id )
          => SeqIds(watchlist') =
               IF last.did = "added" THEN SeqIds(watchlist) \ {last.id}
               ELSE SeqIds(watchlist) \cup {last.id}
     /\ Called("toggleTwice") => SeqIds(watchlist') = SeqIds(watchlist)]_vars

\* C15: toggle decides on the in-memory watchlist as it is when it is called:
\* it reports "removed" exactly when the id is in the list at that moment, and
\* what it reports is what the call did to the list.
C15_ToggleReportsChange ==
  /\ [][Called("toggle")
          => /\ last'.ret = "removed" <=> Some(watchlist, last'.id)
             /\ last'.ret = Change(watchlist, watchlist', last'.id)]_vars
  /\ [](last.op \in {"toggle", "toggleTwice"} => last.ret = last.did)

\* C16: clear() empties the in-memory watchlist, writes the empty list to the
\* local store, and issues a remote write of the empty list to the active
\* identity's document exactly when an identity is active.
C16_ClearEmpties ==
  [][Called("clear")
       => /\ watchlist' = <<>>
          /\ localStore' = <<>> /\ storeKind' = "json"
          /\ remote' = remote
          /\ IF user = NoUser THEN pushes' = pushes
             ELSE \E p \in pushes' :
                    /\ p.uid = user /\ p.list = <<>>
                    /\ pushes' = pushes \cup {p}]_vars

\* C16 witness: a clear under an active identity whose document holds
\* entries; the write of the empty list is the only one in flight.
C16_Witness ==
  /\ last.op = "clear"
  /\ user # NoUser
  /\ Cardinality(pushes) = 1
  /\ \A p \in pushes : p.uid = user /\ p.list = <<>>
  /\ cloudWatchlist(remote[user]) # <<>>

\* C17: the local store follows memory: once the hook is mounted, what the
\* local store holds is the in-memory watchlist (nothing stored yet: the
\* watchlist is empty), after every add, remove, clear and sync.
C17_StoreFollowsMemory ==
  phase = "mounted" =>
    /\ storeKind \in {"absent", "json"}
    /\ storeKind = "json" => localStore = watchlist
    /\ storeKind = "absent" => watchlist = <<>>

\* C17 witness: an add and then a remove, and the local store's last write is
\* the empty list.
C17_Witness ==
  /\ last.op = "remove"
  /\ events = 2
  /\ watchlist = <<>>
  /\ storeKind = "json" /\ localStore = <<>>

\* C18: initialization: the first render's watchlist is the list the local
\* store holds, and the empty list when the key is absent or its content is
\* not parseable; no error is raised.
C18_Initialization ==
  [][(phase = "unmounted" /\ phase' # "unmounted")
       => /\ phase' = "mounted"
          /\ watchlist' = IF storeKind = "json" THEN localStore ELSE <<>>]_vars

\* two strings are equal when case is ignored
EqIgnoreCase(a, b) == toLowerCase(a) = toLowerCase(b)

\* a occurs in b as a substring when case is ignored
InIgnoreCase(a, b) ==
  \E k \in 0..(Len(b) - Len(a)) :
    EqIgnoreCase(SubSeq(b, k + 1, k + Len(a)), a)

\* the catalog entry e satisfies the hard filters of f, the language filter
\* being active or not as languageActive says
Satisfies(e, f, languageActive) ==
  /\ f.genres # <<>>
       => \E a \in 1..Len(f.genres), b \in 1..Len(e.genre) :
            EqIgnoreCase(f.genres[a], e.genre[b])
  /\ f.minRating > 0 => e.rating >= f.minRating
  /\ languageActive => EqIgnoreCase(e.language, f.language)
  /\ f.yearRange.min <= e.release_year /\ e.release_year <= f.yearRange.max
  /\ f.runtime = "short" => e.runtime < 120
  /\ f.runtime = "long" => e.runtime >= 120
  /\ f.searchQuery # <<>>
       => \/ InIgnoreCase(f.searchQuery, e.title)
          \/ \E a \in 1..Len(e.actors) : InIgnoreCase(f.searchQuery, e.actors[a])
          \/ InIgnoreCase(f.searchQuery, e.director)

\* C19: result bounds: getRecommendations returns at most 10 entries;
\* getSimilarMovies returns at most 6, none of them the movie it was given.
C19_ResultBounds ==
  /\ rPc = "recs" => Len(rOut) <= 10
  /\ rPc = "similar" =>
       /\ Len(rOut) <= 6
       /\ \A k \in 1..Len(rOut) : rOut[k].movie.id # rIn.movie.id

\* C19 witness: getSimilarMovies on a catalog that holds the movie itself has
\* returned 6 entries and left out another movie that shares a genre with it.
C19_Witness ==
  /\ rPc = "similar"
  /\ Len(rOut) = 6
  /\ \E k \in 1..Len(rIn.catalog) : rIn.catalog[k] = rIn.movie
  /\ \E k \in 1..Len(rIn.catalog) :
       /\ rIn.catalog[k].id # rIn.movie.id
       /\ \E a \in 1..Len(rIn.catalog[k].genre), b \in 1..Len(rIn.movie.genre) :
            rIn.catalog[k].genre[a] = rIn.movie.genre[b]
       /\ \A j \in 1..Len(rOut) : rOut[j].movie # rIn.catalog[k]

\* C20 as stated: every entry getRecommendations returns is a catalog entry
\* that satisfies every hard filter, the language filter being active
\* whenever the language is not "all".
C20_FilterNarrowing ==
  rPc = "recs" =>
    \A k \in 1..Len(rOut) :
      /\ \E j \in 1..Len(rIn.catalog) : rIn.catalog[j] = rOut[k].movie
      /\ Satisfies(rOut[k].movie, rIn.filters, rIn.filters.language # <<"a", "l", "l">>)

\* C20 amended: every entry getRecommendations returns is a catalog entry
\* that satisfies every active hard filter, the language filter being active
\* when the language is neither "all" nor the empty string.
C20_FilterNarrowingAmended ==
  rPc = "recs" =>
    \A k \in 1..Len(rOut) :
      /\ \E j \in 1..Len(rIn.catalog) : rIn.catalog[j] = rOut[k].movie
      /\ Satisfies(rOut[k].movie, rIn.filters,
                   rIn.filters.language \notin {<<>>, <<"a", "l", "l">>})

\* C20 witness: genre, rating, language, runtime and query filters are all
\* active, some entries are returned and some catalog entries are not.
C20_Witness ==
  /\ rPc = "recs"
  /\ rIn.filters.genres # <<>>
  /\ rIn.filters.minRating > 0
  /\ rIn.filters.language = <<"E", "N">>
  /\ rIn.filters.runtime # "any"
  /\ rIn.filters.searchQuery # <<>>
  /\ rOut # <<>>
  /\ Len(rOut) < Len(rIn.catalog)

\* the place of the catalog entry e in the catalog (0: not in it)
CatalogIndex(e) ==
  IF \E j \in 1..Len(rIn.catalog) : rIn.catalog[j] = e
  THEN CHOOSE j \in 1..Len(rIn.catalog) : rIn.catalog[j] = e
  ELSE 0

\* the number of entries of tags whose lower-case form is among selected, as
\* a fraction of the selection, times weight; the whole weight when nothing
\* is selected
Fraction(tags, selected, weight) ==
  IF selected = <<>> THEN weight
  ELSE (weight * Cardinality({b \in 1..Len(tags) :
                                \E a \in 1..Len(selected) :
                                  selected[a] = toLowerCase(tags[b])}))
         \div Len(selected)

\* 6000 times 0.30*genre fraction + 0.25*mood fraction + 0.25*(rating/10)
\* + 0.10*recency + 0.10*awards step, the rating in tenths
TotalScore(e, f, year) ==
  LET age == year - e.release_year
      n == Len(e.awards)
  IN Fraction(e.genre, f.genres, 1800)
     + Fraction(e.mood_tags, f.moods, 1500)
     + 15 * e.rating
     + (IF age >= 50 THEN 0 ELSE 600 - 12 * age)
     + (CASE n >= 3 -> 600 [] n = 2 -> 480 [] n = 1 -> 360 [] OTHER -> 180)

\* C21: ranking: getRecommendations returns the surviving candidates in
\* descending order of the total score (each carrying that score, the ones
\* left out scoring no more than the last one returned), and candidates of
\* equal total score keep their catalog order.
C21_Ranking ==
  rPc = "recs" =>
    /\ \A k \in 1..Len(rOut) :
         rOut[k].score = TotalScore(rOut[k].movie, rIn.filters, rIn.year)
    /\ \A i, j \in 1..Len(rOut) :
         i < j =>
           /\ rOut[i].score >= rOut[j].score
           /\ rOut[i].score = rOut[j].score
                => CatalogIndex(rOut[i].movie) < CatalogIndex(rOut[j].movie)
    /\ \A c \in 1..Len(rIn.catalog) :
         (/\ PassesFilters(rIn.catalog[c], rIn.filters)
          /\ \A k \in 1..Len(rOut) : rOut[k].movie # rIn.catalog[c])
           => /\ Len(rOut) = TopN
              /\ TotalScore(rIn.catalog[c], rIn.filters, rIn.year) <= rOut[TopN].score
              /\ TotalScore(rIn.catalog[c], rIn.filters, rIn.year) = rOut[TopN].score
                   => CatalogIndex(rOut[TopN].movie) < c

\* the reasons in the order in which they are attached
ReasonOrder ==
  <<"Genre match", "Mood match", "Highly rated", "Award winning", "Recent release">>

\* the condition of reason r for the catalog entry e under the filters f:
\* weighted genre subscore > 0.15 (900 of 6000), weighted mood subscore
\* > 0.12 (720 of 6000), rating >= 8.5, an award, release year >= 2020
ReasonHolds(r, e, f) ==
  CASE r = "Genre match" -> Fraction(e.genre, f.genres, 1800) > 900
    [] r = "Mood match" -> Fraction(e.mood_tags, f.moods, 1500) > 720
    [] r = "Highly rated" -> e.rating >= 85
    [] r = "Award winning" -> Len(e.awards) >= 1
    [] r = "Recent release" -> e.release_year >= 2020

\* matchReasons of every returned candidate is the sub-sequence of ReasonOrder
\* whose conditions hold
ReasonsAsConditions ==
  \A k \in 1..Len(rOut) :
    rOut[k].matchReasons
      = SelectSeq(ReasonOrder, LAMBDA r : ReasonHolds(r, rOut[k].movie, rIn.filters))

\* the request for action movies on the catalog of two has been answered
ActionAnswered ==
  rPc = "recs" /\ rIn.catalog = TwoMovies /\ rIn.filters = ActionFilters

\* C22 as stated: matchReasons is the sub-sequence of the five reasons whose
\* conditions hold, and the request for action movies on the catalog of two
\* returns item 1 alone with Genre match, Highly rated, Recent release.
C22_MatchReasons ==
  /\ rPc = "recs" => ReasonsAsConditions
  /\ ActionAnswered =>
       /\ Len(rOut) = 1
       /\ rOut[1].movie = TwoMovies[1]
       /\ rOut[1].matchReasons = <<"Genre match", "Highly rated", "Recent release">>

\* C22 amended: matchReasons is the sub-sequence of the five reasons whose
\* conditions hold, and the request for action movies on the catalog of two
\* returns item 1 alone with Genre match, Mood match (no mood is selected, so
\* the mood fraction is 1), Highly rated, Recent release.
C22_MatchReasonsAmended ==
  /\ rPc = "recs" => ReasonsAsConditions
  /\ ActionAnswered =>
       /\ Len(rOut) = 1
       /\ rOut[1].movie = TwoMovies[1]
       /\ rOut[1].matchReasons
            = <<"Genre match", "Mood match", "Highly rated", "Recent release">>

\* C22 witness: the request for action movies on the catalog of two has
\* returned one candidate, with reasons attached.
C22_Witness ==
  /\ ActionAnswered
  /\ Len(rOut) = 1
  /\ rOut[1].matchReasons # <<>>

\* the number of entries of a that are entries of b
Shared(a, b) ==
  Cardinality({i \in 1..Len(a) : \E j \in 1..Len(b) : a[i] = b[j]})

\* twice 2*(shared genres) + 1.5*(shared moods) + 3 if same director + 1 if
\* the rating difference is below 0.5, ratings in tenths
Similarity(e, item) ==
  4 * Shared(e.genre, item.genre)
  + 3 * Shared(e.mood_tags, item.mood_tags)
  + (IF e.director = item.director THEN 6 ELSE 0)
  + (IF e.rating - item.rating < 5 /\ item.rating - e.rating < 5 THEN 2 ELSE 0)

\* what getSimilarMovies returns are catalog entries other than the item that
\* share a genre, a mood tag or the director with it
SimilarPool ==
  \A k \in 1..Len(rOut) :
    LET e == rOut[k].movie
    IN /\ \E j \in 1..Len(rIn.catalog) : rIn.catalog[j] = e
       /\ e.id # rIn.movie.id
       /\ \/ Shared(e.genre, rIn.movie.genre) > 0
          \/ Shared(e.mood_tags, rIn.movie.mood_tags) > 0
          \/ e.director = rIn.movie.director

\* C23: getSimilarMovies(item) returns only catalog entries other than item
\* that share a genre, a mood tag or the director with item, in descending
\* order of the similarity 2*(shared genres) + 1.5*(shared moods) + 3 if same
\* director + 1 if the rating difference is below 0.5.
C23_SimilarOrder ==
  rPc = "similar" =>
    /\ SimilarPool
    /\ \A i, j \in 1..Len(rOut) :
         i < j => Similarity(rOut[i].movie, rIn.movie) >= Similarity(rOut[j].movie, rIn.movie)

\* C24: remote pushes are issued only under an active identity and target
\* that identity: add of a new id, remove and clear write no document
\* themselves and issue one remote write, carrying the full list as it is
\* after the mutation, exactly when an identity is active at call time; a
\* push that lands is applied to the document of the identity that was active
\* when it was issued, whoever is active by then, and to no other document.
C24_PushTargetsIssuer ==
  [][/\ (Called("add") \/ Called("remove") \/ Called("clear"))
          => /\ remote' = remote
             /\ user = NoUser => pushes' = pushes
             /\ user # NoUser
                  => \E p \in pushes' :
                       /\ p.uid = user /\ p.list = watchlist'
                       /\ pushes' = pushes \cup {p}
     /\ last'.op = "pushOk" /\ pushes' # pushes
          => \E p \in pushes :
               /\ pushes' = pushes \ {p}
               /\ last'.uid = p.uid
               /\ remote'[p.uid].exists /\ remote'[p.uid].hasList
               /\ remote'[p.uid].watchlist = p.list
               /\ \A u \in Uids \ {p.uid} : remote'[u] = remote[u]]_vars

\* C24 witness: a push issued under one identity has just landed in that
\* identity's document while another identity is active.
C24_Witness ==
  /\ last.op = "pushOk"
  /\ user \notin {NoUser, last.uid}
  /\ remote[last.uid].watchlist # <<>>
  /\ remote[last.uid].watchlist = watchlist
  /\ cloudWatchlist(remote[user]) = <<>>

\* C25: last network arrival wins: a push that lands leaves its identity's
\* remote watchlist equal to the snapshot it carries, whether or not pushes
\* issued later for that identity have landed before it or are still in
\* flight; every remote watchlist is a list that has been the in-memory
\* watchlist; and when the pushes have landed in issue order, none has failed,
\* the last one issued lands and the list is as it was when that one was
\* issued, the remote watchlist equals the in-memory list and the local store.
C25_LastArrivalWins ==
  /\ [][last'.op = "pushOk" /\ pushes' # pushes
          => \E p \in pushes \ pushes' :
               /\ remote'[p.uid].watchlist = p.list
               /\ ( /\ hist'.inOrder /\ hist.quiet
                    /\ p.n = hist.issued
                    /\ \A q \in pushes' : q.uid # p.uid )
                    => /\ remote'[p.uid].watchlist = watchlist'
                       /\ remote'[p.uid].watchlist = localStore']_vars
  /\ [](\A u \in Uids : remote[u].hasList => remote[u].watchlist \in hist.seen)

\* C25 witness: two pushes of the active identity have landed, the one issued
\* first last; the remote watchlist is the older snapshot, not the current
\* list.
C25_Witness ==
  /\ last.op = "pushOk"
  /\ last.uid = user
  /\ pushes = {}
  /\ hist.issued = 2
  /\ ~hist.inOrder
  /\ hist.quiet
  /\ remote[user].watchlist # watchlist
  /\ Len(remote[user].watchlist) < Len(watchlist)

\* C26: a local mutation made while a sync is suspended on the remote fetch
\* is not lost: add() during the fetch puts the entry into the local store
\* and leaves the run as it is; when the fetch returns, every entry of the
\* local store is in the merged list the run installs in memory and in the
\* local store; and the run's write, when it succeeds, puts that merged list
\* into the identity's document.
C26_AddDuringFetchKept ==
  [][/\ ( Called("add") /\ \E k \in 1..Len(syncs) : syncs[k].pc \in {"fetch", "fetched"} )
          => /\ Some(localStore', last'.id)
             /\ \A k \in 1..Len(syncs) :
                  syncs[k].pc \in {"fetch", "fetched"} => syncs'[k] = syncs[k]
     /\ \A k \in 1..Len(syncs) :
          ( syncs[k].pc = "fetched" /\ syncs'[k].pc = "write" /\ last'.op = "fetchOk" )
          => /\ Range(localStore) \subseteq Range(watchlist')
             /\ localStore' = watchlist'
             /\ syncs'[k].merged = watchlist'
     /\ \A k \in 1..Len(syncs) :
          ( syncs[k].pc = "write" /\ syncs'[k].pc = "done" /\ last'.op = "writeOk" )
          => remote'[syncs[k].uid].watchlist = syncs[k].merged]_vars

\* C26 witness: after a login and one add, the sync's write has succeeded
\* with the list unchanged since the merge; the push of that add (so the add
\* was made under the identity, after the sync started, and before the fetch
\* returned) is still in flight, and memory, local store and document hold
\* the entry.
C26_Witness ==
  /\ last.op = "writeOk" /\ last.clean
  /\ events = 2
  /\ Len(watchlist) = 1
  /\ watchlist[1].id \in Ids
  /\ \E p \in pushes : p.uid = last.uid /\ p.list = watchlist
  /\ localStore = watchlist
  /\ remote[last.uid].watchlist = watchlist

\* C27: with two instances over the same local-store key, an entry added
\* through one instance is still in the local store after a later add or
\* remove (of another id) made through the other instance, which was mounted
\* before that entry was added.
C27_OtherInstanceKeepsEntry ==
  [][( /\ last.op = "add"
       /\ Some(localStore, last.id)
       /\ last'.op \in {"cardAdd", "cardRemove"}
       /\ last'.id # last.id )
       => Some(localStore', last.id)]_vars

\* C28: merge never propagates a deletion: when a sync's fetch returns, every
\* entry of the fetched remote watchlist whose id the local store lacks (it
\* was removed locally and the removal did not reach the document) is put
\* into the in-memory watchlist and the local store.
C28_DeletionNotPropagated ==
  [][\A k \in 1..Len(syncs) :
       ( syncs[k].pc = "fetched" /\ syncs'[k].pc = "write" /\ last'.op = "fetchOk" )
       => \A e \in Range(Fetched(syncs[k])) :
            ~Some(localStore, e.id)
              => e \in Range(watchlist') /\ e \in Range(localStore')]_vars

\* C28 witness: a sync has just put back an entry that the document held and
\* that had been removed from the local store (the documents start without
\* a watchlist, so the entry came from this hook) and from memory.
C28_Witness ==
  /\ last.op = "fetchOk"
  /\ \E k \in 1..Len(syncs) :
       /\ syncs[k].pc = "write" /\ ~syncs[k].touched
       /\ \E e \in Range(Fetched(syncs[k])) :
            /\ e.id \in Ids
            /\ ~Some(syncs[k].local0, e.id)
            /\ e \in Range(watchlist)
            /\ e \in Range(localStore)

\* C29: the local store is shared across identities: the write of a sync
\* that succeeds puts into its identity's document every entry the local
\* store held when the sync read it, whoever was active (or nobody) when the
\* entry got there; and a logout leaves the local store as it is.
C29_SharedLocalStore ==
  [][/\ \A k \in 1..Len(syncs) :
          ( syncs[k].pc = "write" /\ syncs'[k].pc = "done" /\ last'.op = "writeOk" )
          => Range(syncs[k].local0) \subseteq Range(remote'[syncs[k].uid].watchlist)
     /\ (user # NoUser /\ user' = NoUser)
          => localStore' = localStore /\ storeKind' = storeKind]_vars

\* C29 witness: the sync of a second identity has written into its document
\* an entry that was added under the first identity and is in the first
\* identity's document too, and the entry an earlier session had left in the
\* local store.
C29_Witness ==
  /\ last.op = "writeOk" /\ last.clean
  /\ last.uid = "bob" /\ user = "bob"
  /\ \E e \in Range(remote["bob"].watchlist) :
       e.id \in Ids /\ e \in Range(remote["alice"].watchlist)
  /\ \E e \in Range(remote["bob"].watchlist) : e.id \notin Ids

\* C30: the syncing flag is true in every state in which a sync started by
\* an identity change has not yet finished, also when a second identity
\* change has started another sync before the first one finished; it is
\* false only when no sync is in flight.
C30_SyncingWhileInFlight ==
  phase = "mounted" => (syncing <=> \E k \in 1..Len(syncs) : InFlight(syncs[k]))

====
